---- MODULE Spec2Model ----
(***************************************************************************)
(* A model of the retrieval pipeline of the employee-policy Q&A system:    *)
(* the tenant-scoped vector store (src/src/vector_store.py, both the       *)
(* chroma and the faiss backend), the pipeline that ingests and searches   *)
(* (src/src/rag_pipeline.py) and the answer assembler                      *)
(* (src/src/qa_system.py).                                                 *)
(*                                                                         *)
(* A Python value that may be None is a sequence of length at most one:    *)
(* None is <<>> and the integer n is <<n>>.  A file that may be absent is  *)
(* modelled the same way.  Embeddings come from an external provider and   *)
(* are opaque here: a stored vector is a position of the index, and a      *)
(* query is the function that gives its distance to each stored position.  *)
(* A document is its filename and the number of chunks the chunker cuts    *)
(* it into.                                                                *)
(***************************************************************************)
EXTENDS Integers, Sequences, FiniteSets, TLC

VARIABLES
    db_type,        \* config.VECTOR_DB_TYPE of the running process
    collections,    \* chroma: collection name -> the stored entries, in insertion order
    index_file,     \* faiss: vector_db/faiss_index.bin, None when the file is absent
    metadata_file,  \* faiss: vector_db/metadata.pkl, None when the file is absent
    stores,         \* the live RAGPipeline / VectorStore objects, by slot
    documents,      \* the rows of the application's documents table
    chunker,        \* a TextChunker, the text given to it and what it returned
    processor,      \* the text a DocumentProcessor is cleaning
    last            \* what the last call did and returned

vars == <<db_type, collections, index_file, metadata_file, stores, documents,
          chunker, processor, last>>

-----------------------------------------------------------------------------
(* Bounds of the model *)

MaxStored == 3
MaxChunks == 2
MaxShared == 4

Slots == {1}
Tenants == {1, 2}
Distances == {0, 1}
TopKs == {1, 2}
UploadNames == {"a.pdf"}
SharedNames == {"a.pdf", "b.pdf"}

-----------------------------------------------------------------------------
(* Program constants *)

COLLECTION_NAME == "employee_policies"
PDF_FILES == <<"Employment_Contract_XCorp.pdf", "HR_Policy_Handbook_XCorp.pdf",
               "Increment_and_Probation_Policy_XCorp.pdf">>
TOP_K_RESULTS == 3

-----------------------------------------------------------------------------
(* Python values *)

None == <<>>
Some(x) == <<x>>

UserIds == {None} \cup {Some(t) : t \in Tenants}

\* Python truthiness of an Optional[int]: None and 0 are falsy.
Truthy(u) == u # None /\ u # Some(0)

\* Python str() of an Optional[int].
Str(u) == IF u = None THEN "None" ELSE ToString(u[1])

Min(a, b) == IF a <= b THEN a ELSE b

RECURSIVE SumLen(_, _)
SumLen(f, names) ==
    IF names = {} THEN 0
    ELSE LET n == CHOOSE m \in names : TRUE
         IN  Len(f[n]) + SumLen(f, names \ {n})

-----------------------------------------------------------------------------
(* Chunks *)

\* TextChunker.chunk_document: the chunk ids of a document and the document's
\* metadata copied into every chunk.  n is the number of chunks _split_text
\* returns for the content.
ChunkId(filename, i) == filename \o "_chunk_" \o ToString(i)

chunk_document(filename, user_id, n) ==
    [i \in 1..n |-> [chunk_id  |-> ChunkId(filename, i - 1),
                     source    |-> filename,
                     user_id   |-> user_id]]

ChunkIds(chunks) == {chunks[i].chunk_id : i \in DOMAIN chunks}

-----------------------------------------------------------------------------
(* VectorStore.__init__ *)

collection_name(user_id) ==
    IF Truthy(user_id) THEN "user_" \o Str(user_id) \o "_documents"
    ELSE COLLECTION_NAME

NoStore ==
    [live |-> FALSE, user_id |-> None, collection_name |-> "", stale |-> FALSE,
     faiss_index |-> None, metadata_store |-> <<>>]

InitChromaRecreate(user_id) ==
    [c \in DOMAIN collections \cup {collection_name(user_id)} |->
        IF c = collection_name(user_id) THEN <<>> ELSE collections[c]]

\* _init_chroma: get the collection or, failing that, create it (both
\* branches of the except clause create it).
InitChromaCollections(user_id) ==
    LET name == collection_name(user_id)
    IN  IF name \in DOMAIN collections THEN collections
        ELSE [c \in DOMAIN collections \cup {name} |->
                 IF c = name THEN <<>> ELSE collections[c]]

\* _init_faiss: load the index and the metadata when the index file exists.
NewStore(user_id) ==
    [live            |-> TRUE,
     user_id         |-> user_id,
     collection_name |-> collection_name(user_id),
     stale           |-> FALSE,
     faiss_index     |-> IF db_type = "faiss" /\ index_file # None
                         THEN index_file ELSE None,
     metadata_store  |-> IF db_type = "faiss" /\ index_file # None
                         THEN metadata_file[1] ELSE <<>>]

-----------------------------------------------------------------------------
(* VectorStore.search *)

\* One row of the backend's answer: the stored position idx and its distance
\* to the query q.
Hit(idx, q) == [idx |-> idx, distance |-> q[idx]]

RECURSIVE InsertHit(_, _)
InsertHit(h, s) ==
    IF s = <<>> THEN <<h>>
    ELSE IF Head(s).distance > h.distance THEN <<h>> \o s
    ELSE <<Head(s)>> \o InsertHit(h, Tail(s))

\* The backend's nearest-neighbour answer over its m stored vectors: the n
\* nearest, nearest first (ties in stored order).
RECURSIVE NearestFirst(_, _)
NearestFirst(m, q) ==
    IF m = 0 THEN <<>>
    ELSE InsertHit(Hit(m, q), NearestFirst(m - 1, q))

Nearest(m, q, n) == SubSeq(NearestFirst(m, q), 1, Min(n, m))

HasNoUserIdNever(metadata_user_id) == FALSE

\* "STRICT: Must have user_id in metadata"
HasNoUserId(metadata_user_id) == metadata_user_id = None

\* The comparison both tenant checks make: str(a) == str(b).
SameUserAlways(a, b) == TRUE
SameUser(a, b) == Str(a) = Str(b)

OtherUserNever(metadata_user_id, user_id) == FALSE

\* "STRICT: MUST match the search user_id exactly": the store filters only
\* when it has a (truthy) user_id of its own.
OtherUser(metadata_user_id, user_id) ==
    Truthy(user_id) /\ ~SameUser(metadata_user_id, user_id)

\* The result dictionary built from a candidate.
Result(meta, h) ==
    [chunk_id |-> meta[h.idx].chunk_id, source |-> meta[h.idx].source,
     user_id  |-> meta[h.idx].user_id,  distance |-> h.distance]

\* The loop of _search_chroma and _search_faiss over the candidates, whose
\* metadata is meta[idx]: the results, warned when the WARNING line was
\* printed, and passed_over, the distances of the candidates of other users
\* the loop skipped.  A faiss position without metadata is passed over
\* ("if idx < len(self.metadata_store)").
NoneFound == [results |-> <<>>, warned |-> FALSE, passed_over |-> {}]

RECURSIVE FilterHitsUncut(_, _, _, _, _)
FilterHitsUncut(hits, meta, user_id, top_k, acc) ==
    IF hits = <<>> THEN acc
    ELSE LET h == Head(hits)
         IN  IF h.idx > Len(meta) \/ HasNoUserId(meta[h.idx].user_id)
                \/ OtherUser(meta[h.idx].user_id, user_id)
             THEN FilterHitsUncut(Tail(hits), meta, user_id, top_k, acc)
             ELSE FilterHitsUncut(Tail(hits), meta, user_id, top_k,
                      [acc EXCEPT !.results = Append(@, Result(meta, h))])

RECURSIVE FilterHits(_, _, _, _, _)
FilterHits(hits, meta, user_id, top_k, acc) ==
    IF hits = <<>> THEN acc
    ELSE LET h == Head(hits)
         IN  IF h.idx > Len(meta)
             THEN FilterHits(Tail(hits), meta, user_id, top_k, acc)
             ELSE IF HasNoUserId(meta[h.idx].user_id)
             THEN FilterHits(Tail(hits), meta, user_id, top_k,
                             [acc EXCEPT !.warned = TRUE])
             ELSE IF OtherUser(meta[h.idx].user_id, user_id)
             THEN FilterHits(Tail(hits), meta, user_id, top_k,
                             [acc EXCEPT !.passed_over = @ \cup {h.distance}])
             ELSE LET acc2 == [acc EXCEPT !.results = Append(@, Result(meta, h))]
                  IN  IF Len(acc2.results) >= top_k THEN acc2
                      ELSE FilterHits(Tail(hits), meta, user_id, top_k, acc2)

\* The candidates the backend hands to the loop: chroma is asked for
\* top_k * 2 results, faiss for min(top_k * 3, ntotal).
ChromaOverFetch(top_k) == top_k * 2
FaissOverFetch(top_k) == top_k * 3

Candidates(s, q, top_k) ==
    IF db_type = "chroma"
    THEN Nearest(Len(collections[s.collection_name]), q, ChromaOverFetch(top_k))
    ELSE IF s.faiss_index = None THEN <<>>
    ELSE Nearest(s.faiss_index[1], q,
                 Min(FaissOverFetch(top_k), s.faiss_index[1]))

StoredMetadata(s) ==
    IF db_type = "chroma" THEN collections[s.collection_name]
    ELSE s.metadata_store

\* A chroma handle whose collection was deleted raises on every use.
ChromaGone(s) == db_type = "chroma" /\ s.stale

store_search(s, q, top_k) ==
    FilterHits(Candidates(s, q, top_k), StoredMetadata(s), s.user_id, top_k,
               NoneFound)

\* VectorStore.get_collection_info()["document_count"]
document_count(s) ==
    IF db_type = "chroma" THEN Len(collections[s.collection_name])
    ELSE IF s.faiss_index # None THEN s.faiss_index[1] ELSE 0

-----------------------------------------------------------------------------
(* RAGPipeline.search *)

\* "STRICT: Must have a user_id"
MissingUserIdNever(user_id) == FALSE
MissingUserId(user_id) == ~Truthy(user_id)

\* "STRICT: Validate that ALL results belong to this user"
ForeignResultNever(results, user_id) == FALSE
ForeignResult(results, user_id) ==
    \E i \in DOMAIN results : ~SameUser(results[i].user_id, user_id)

\* What a call did: the exception it raised ("" when it returned), how often
\* it called the embedding provider's generate_embedding, the store's
\* get_collection_info and the store's search, whether the store printed its
\* WARNING line, what the store's search handed back (found), and what the
\* call returned; detail is the cause an HTTP error response names.
\* llm_calls counts the chat completions the call asked for, and sources and
\* confidence are those of the answer, the scores in tenths.
NoCall ==
    [op |-> "init", user_id |-> None, raised |-> "",
     embed_calls |-> 0, info_calls |-> 0, search_calls |-> 0, warned |-> FALSE,
     top_k |-> 0, passed_over |-> {}, found |-> <<>>, results |-> <<>>,
     answer |-> "", detail |-> "",
     llm_calls |-> 0, sources |-> <<>>, confidence |-> 0,
     filename |-> "",
     chunks |-> 0, given |-> {}, count |-> 0, ok |-> TRUE]

Call(op, slot) ==
    [NoCall EXCEPT !.op = op, !.user_id = stores[slot].user_id]

\* RAGPipeline.search from its second statement on, over a store that
\* reports count documents and answers the search with found.
pipeline_search_over(user_id, count, found, call) ==
    IF count = 0
    THEN [call EXCEPT !.info_calls = 1]
    ELSE LET searched == [call EXCEPT !.info_calls = 1, !.embed_calls = 1,
                                      !.search_calls = 1, !.warned = found.warned,
                                      !.passed_over = found.passed_over,
                                      !.found = found.results]
         IN  IF ForeignResult(found.results, user_id)
             THEN [searched EXCEPT !.raised = "SECURITY ERROR", !.ok = FALSE]
             ELSE [searched EXCEPT !.results = found.results]

pipeline_search(s, q, top_k, call) ==
    IF MissingUserId(s.user_id)
    THEN [call EXCEPT !.raised = "ValueError", !.ok = FALSE]
    ELSE IF ChromaGone(s)
    THEN [call EXCEPT !.raised = "ChromaError", !.ok = FALSE, !.info_calls = 1]
    ELSE pipeline_search_over(s.user_id, document_count(s),
                              store_search(s, q, top_k), call)

-----------------------------------------------------------------------------
(* VectorStore.add_documents *)

\* _add_to_chroma: collection.add leaves an id the collection already holds
\* as it is and adds the others.
chroma_add(items, chunks) ==
    items \o SelectSeq(chunks, LAMBDA c : c.chunk_id \notin ChunkIds(items))

\* _add_to_faiss: the vectors are appended to the index of this object
\* (faiss_index is its ntotal) and the metadata is stored under the next free
\* keys, start_id = len(metadata_store) onwards.
faiss_add(s, chunks) ==
    [s EXCEPT
       !.faiss_index = Some((IF @ = None THEN 0 ELSE @[1]) + Len(chunks)),
       !.metadata_store = @ \o chunks]

\* The number of chunks the backend holds, as the guard of the bound sees it.
StoredTotal(s) ==
    IF db_type = "chroma" THEN SumLen(collections, DOMAIN collections)
    ELSE IF s.faiss_index = None THEN 0 ELSE s.faiss_index[1]

\* add_documents on the store of slot i; call is what the caller reports when
\* the store raises nothing, and with_info says that the caller goes on to
\* read get_collection_info (ingest_documents does, for its summary).
add_documents(i, chunks, call, with_info) ==
    LET s == stores[i]
    IN  IF chunks = <<>>
        THEN /\ last' = call
             /\ UNCHANGED <<collections, index_file, metadata_file, stores>>
        ELSE IF db_type = "chroma"
        THEN IF s.stale
             THEN /\ last' = [call EXCEPT !.raised = "ChromaError", !.ok = FALSE]
                  /\ UNCHANGED <<collections, index_file, metadata_file, stores>>
             ELSE /\ collections' =
                        [collections EXCEPT ![s.collection_name] = chroma_add(@, chunks)]
                  /\ last' = IF with_info
                             THEN [call EXCEPT !.count = Len(collections'[s.collection_name])]
                             ELSE call
                  /\ UNCHANGED <<index_file, metadata_file, stores>>
        ELSE LET t == faiss_add(s, chunks)
             IN  /\ stores' = [stores EXCEPT ![i] = t]
                 /\ index_file' = t.faiss_index
                 /\ metadata_file' = Some(t.metadata_store)
                 /\ last' = IF with_info THEN [call EXCEPT !.count = t.faiss_index[1]]
                            ELSE call
                 /\ UNCHANGED collections

-----------------------------------------------------------------------------
(* The operations *)

\* No chunker at work: the calls below take the number of chunks of a
\* document as their input.
NoChunker ==
    [chunk_size |-> 0, chunk_overlap |-> 0, filename |-> "", content |-> <<>>,
     called |-> FALSE, steps |-> <<>>, pieces |-> <<>>, chunks |-> <<>>]

\* An empty vector_db directory and an empty documents table.
\* No text under cleaning.
NoProcessor == [text |-> <<>>, calls |-> 0]

InitFiles ==
    /\ db_type \in {"chroma", "faiss"}
    /\ collections = <<>>
    /\ index_file = None
    /\ metadata_file = None
    /\ documents = <<>>
    /\ last = NoCall

InitStore ==
    /\ InitFiles
    /\ stores = [i \in Slots |-> NoStore]

Init ==
    /\ InitStore
    /\ chunker = NoChunker
    /\ processor = NoProcessor

\* RAGPipeline(user_id) or VectorStore(user_id=user_id): a new object in slot i.
NewPipeline(i, user_id) ==
    /\ stores' = [stores EXCEPT ![i] = NewStore(user_id)]
    /\ collections' = IF db_type = "chroma" THEN InitChromaCollections(user_id)
                      ELSE collections
    /\ last' = [NoCall EXCEPT !.op = "new", !.user_id = user_id]
    /\ UNCHANGED <<db_type, index_file, metadata_file, documents, chunker, processor>>

\* VectorStore.add_documents called with chunks of the caller's making.
AddDocuments(i, chunks) ==
    /\ stores[i].live
    /\ StoredTotal(stores[i]) + Len(chunks) <= MaxStored
    /\ add_documents(i, chunks,
                     [Call("add_documents", i) EXCEPT
                         !.chunks = Len(chunks),
                         !.given = {chunks[j].user_id : j \in DOMAIN chunks}],
                     FALSE)
    /\ UNCHANGED <<db_type, documents, chunker, processor>>

\* RAGPipeline.ingest_single_document(file_path, original_filename) for a
\* document the chunker cuts into n >= 1 chunks (_split_text returns at least
\* one, the text itself when it is no longer than chunk_size): fails is
\* the step that raises ("" for none): the PDF extraction, the embedding
\* provider, or chroma's validation of a metadata value that is None.
ingest_single_document(i, filename, n, fails) ==
    LET s    == stores[i]
        call == [Call("ingest_single_document", i) EXCEPT
                    !.filename = filename, !.chunks = n]
    IN  /\ s.live
        /\ fails = "metadata" => db_type = "chroma" /\ s.user_id = None /\ ~s.stale
        /\ IF fails # ""
           THEN /\ last' = [call EXCEPT !.raised = fails, !.ok = FALSE, !.chunks = 0]
                /\ UNCHANGED <<collections, index_file, metadata_file, stores>>
           ELSE add_documents(i, chunk_document(filename, s.user_id, n), call, FALSE)
        /\ UNCHANGED <<db_type, documents, chunker, processor>>

IngestSingleDocument(i, filename, n, fails) ==
    /\ stores[i].live
    /\ StoredTotal(stores[i]) + n <= MaxStored
    /\ ingest_single_document(i, filename, n, fails)

\* RAGPipeline.ingest_documents(): present are the PDF_FILES found in the
\* documents directory, each of one chunk here; their metadata has no user_id.
RECURSIVE chunk_all_documents(_, _)
chunk_all_documents(present, k) ==
    IF k > Len(PDF_FILES) THEN <<>>
    ELSE (IF k \in present THEN chunk_document(PDF_FILES[k], None, 1) ELSE <<>>)
         \o chunk_all_documents(present, k + 1)

IngestDocuments(i, present, fails) ==
    LET s      == stores[i]
        chunks == chunk_all_documents(present, 1)
        call   == [Call("ingest_documents", i) EXCEPT
                      !.chunks = Len(chunks), !.info_calls = 1]
    IN  /\ s.live
        /\ StoredTotal(s) + Len(chunks) <= MaxStored
        /\ IF present = {}
           THEN /\ last' = [call EXCEPT !.raised = "ValueError", !.ok = FALSE,
                                        !.info_calls = 0]
                /\ UNCHANGED <<collections, index_file, metadata_file, stores>>
           ELSE IF fails # ""
           THEN /\ last' = [call EXCEPT !.raised = fails, !.ok = FALSE,
                                        !.info_calls = 0, !.chunks = 0]
                /\ UNCHANGED <<collections, index_file, metadata_file, stores>>
           ELSE add_documents(i, chunks, call, TRUE)
        /\ UNCHANGED <<db_type, documents, chunker, processor>>

\* VectorStore.get_collection_info()
GetCollectionInfo(i) ==
    LET s    == stores[i]
        call == [Call("get_collection_info", i) EXCEPT !.info_calls = 1]
    IN  /\ s.live
        /\ last' = IF ChromaGone(s)
                   THEN [call EXCEPT !.raised = "ChromaError", !.ok = FALSE]
                   ELSE [call EXCEPT !.count = document_count(s)]
        /\ UNCHANGED <<db_type, collections, index_file, metadata_file, stores,
                     documents, chunker, processor>>

\* VectorStore.search(query_embedding, top_k)
StoreSearch(i, q, top_k) ==
    LET s    == stores[i]
        call == [Call("store_search", i) EXCEPT !.search_calls = 1,
                                                !.top_k = top_k]
    IN  /\ s.live
        /\ last' = IF ChromaGone(s)
                   THEN [call EXCEPT !.raised = "ChromaError", !.ok = FALSE]
                   ELSE LET found == store_search(s, q, top_k)
                        IN  [call EXCEPT !.results = found.results,
                                         !.warned = found.warned,
                                         !.passed_over = found.passed_over]
        /\ UNCHANGED <<db_type, collections, index_file, metadata_file, stores,
                     documents, chunker, processor>>

\* RAGPipeline.search(query, top_k): q is the query's embedding, as the
\* distances it has to the stored vectors.
Search(i, q, top_k) ==
    /\ stores[i].live
    /\ last' = pipeline_search(stores[i], q, top_k,
                               [Call("search", i) EXCEPT !.top_k = top_k])
    /\ UNCHANGED <<db_type, collections, index_file, metadata_file, stores,
                     documents, chunker, processor>>

\* "relevance_score": 1.0 - (result.get('distance', 0) / 10) if
\* result.get('distance') else 1.0, in tenths. A result whose distance is
\* None is a record without the field here: get returns None for both, and
\* None and 0 are the falsy ones.
relevance_score(result) ==
    IF "distance" \in DOMAIN result /\ result.distance # 0
    THEN 10 - result.distance ELSE 10

\* Step 4 of answer: the sources of the results and the confidence.
with_sources(searched) ==
    LET sources == [j \in DOMAIN searched.results |->
                      [source          |-> searched.results[j].source,
                       chunk_id        |-> searched.results[j].chunk_id,
                       relevance_score |->
                           relevance_score(searched.results[j])]]
    IN  [searched EXCEPT !.sources = sources,
                         !.confidence = sources[1].relevance_score]

\* Step 3 of answer: the completion when use_llm and a client are there,
\* the extraction from the context when they are not or the completion
\* raises.
generate_raising(searched, llm) ==
    IF llm = "ok" THEN [searched EXCEPT !.answer = "llm", !.llm_calls = 1]
    ELSE IF llm = "error"
    THEN [searched EXCEPT !.raised = "LLMError", !.ok = FALSE, !.llm_calls = 1]
    ELSE [searched EXCEPT !.answer = "extractive"]

generate(searched, llm) ==
    IF llm = "ok" THEN [searched EXCEPT !.answer = "llm", !.llm_calls = 1]
    ELSE IF llm = "error"
    THEN [searched EXCEPT !.answer = "extractive", !.llm_calls = 1]
    ELSE [searched EXCEPT !.answer = "extractive"]

qa_answer_unguarded(searched, llm) ==
    IF searched.raised # "" THEN searched
    ELSE IF llm = "ok" THEN [searched EXCEPT !.answer = "llm"]
    ELSE [searched EXCEPT !.answer = "extractive"]

qa_answer_eager(searched, llm) ==
    IF searched.raised # "" THEN searched
    ELSE IF searched.results = <<>>
    THEN [generate(searched, llm) EXCEPT !.answer = "not_found"]
    ELSE with_sources(generate(searched, llm))

\* QASystem(pipeline).answer(question, use_llm): llm is "off" when use_llm is
\* False or no client is configured, "error" when the completion call raises.
qa_answer(searched, llm) ==
    IF searched.raised # "" THEN searched
    ELSE IF searched.results = <<>> THEN [searched EXCEPT !.answer = "not_found"]
    ELSE with_sources(generate(searched, llm))

Answer(i, q, llm) ==
    /\ stores[i].live
    /\ last' = qa_answer(pipeline_search(stores[i], q, TOP_K_RESULTS,
                                         [Call("answer", i) EXCEPT
                                             !.top_k = TOP_K_RESULTS]), llm)
    /\ UNCHANGED <<db_type, collections, index_file, metadata_file, stores,
                     documents, chunker, processor>>

\* VectorStore.delete_collection(): chroma deletes the collection by name and
\* every handle to it goes stale; faiss removes the two files and keeps the
\* index of this object in memory.
DeleteCollection(i) ==
    LET s    == stores[i]
        call == Call("delete_collection", i)
    IN  /\ s.live
        /\ IF db_type = "chroma"
           THEN IF s.collection_name \in DOMAIN collections
                THEN /\ collections' = [c \in DOMAIN collections \ {s.collection_name}
                                           |-> collections[c]]
                     /\ stores' = [j \in Slots |->
                                     IF stores[j].live /\
                                        stores[j].collection_name = s.collection_name
                                     THEN [stores[j] EXCEPT !.stale = TRUE]
                                     ELSE stores[j]]
                     /\ last' = call
                ELSE /\ last' = [call EXCEPT !.ok = FALSE]
                     /\ UNCHANGED <<collections, stores>>
           ELSE /\ last' = call
                /\ UNCHANGED <<collections, stores>>
        /\ index_file' = IF db_type = "faiss" THEN None ELSE index_file
        /\ metadata_file' = IF db_type = "faiss" THEN None ELSE metadata_file
        /\ UNCHANGED <<db_type, documents, chunker, processor>>

\* The queries a store can tell apart: a distance to each position it holds.
Queries(i) ==
    [1..(IF stores[i].live /\ ~ChromaGone(stores[i])
         THEN document_count(stores[i]) ELSE 0) -> Distances]

CallerChunks ==
    {<<[chunk_id |-> ChunkId(f, 0), source |-> f, user_id |-> u]>> :
        f \in UploadNames, u \in UserIds} \cup {<<>>}

PresentSets == {{}, {1}}

\* The calls that write the store or read its size, as the application and
\* its scripts make them through a pipeline.
Ingest ==
    \/ \E i \in Slots, u \in UserIds : NewPipeline(i, u)
    \/ \E i \in Slots, f \in UploadNames, n \in 1..MaxChunks,
          fails \in {"", "extract", "embed", "metadata"} :
          IngestSingleDocument(i, f, n, fails)
    \/ \E i \in Slots, present \in PresentSets, fails \in {"", "extract", "embed"} :
          IngestDocuments(i, present, fails)
    \/ \E i \in Slots : GetCollectionInfo(i)
    \/ \E i \in Slots : DeleteCollection(i)

\* The same with VectorStore.add_documents called directly.
Mutate ==
    \/ Ingest
    \/ \E i \in Slots, chunks \in CallerChunks : AddDocuments(i, chunks)

\* The pipeline's interface over any content of the store.
Next ==
    \/ Mutate
    \/ \E i \in Slots, k \in TopKs : \E q \in Queries(i) : Search(i, q, k)

Spec == Init /\ [][Next]_vars

\* The pipeline's interface over a store that only pipelines have written.
NextPipeline ==
    \/ Ingest
    \/ \E i \in Slots, k \in TopKs : \E q \in Queries(i) : Search(i, q, k)

SpecPipeline == Init /\ [][NextPipeline]_vars

\* The store's interface: VectorStore.search called directly.
NextStore ==
    \/ Mutate
    \/ \E i \in Slots, k \in TopKs : \E q \in Queries(i) : StoreSearch(i, q, k)

SpecStore == Init /\ [][NextStore]_vars

\* The answer assembler's interface: QASystem.answer.
NextQA ==
    \/ Mutate
    \/ \E i \in Slots, llm \in {"ok", "off"} :
          \E q \in Queries(i) : Answer(i, q, llm)

SpecQA == Init /\ [][NextQA]_vars

\* QASystem.answer over a store that pipelines have written, with a chat
\* completion that answers, one that fails, and none.
NextFallback ==
    \/ Ingest
    \/ \E i \in Slots, llm \in {"ok", "error", "off"} :
          \E q \in Queries(i) : Answer(i, q, llm)

SpecFallback == Init /\ [][NextFallback]_vars

\* Tenants' pipelines that upload documents and search, the way the
\* application's upload and ask endpoints use them, up to MaxShared chunks.
NextShared ==
    \/ \E i \in Slots, t \in Tenants : NewPipeline(i, Some(t))
    \/ \E i \in Slots, f \in SharedNames, n \in 1..MaxChunks :
          /\ stores[i].live
          /\ StoredTotal(stores[i]) + n <= MaxShared
          /\ ingest_single_document(i, f, n, "")
    \/ \E i \in Slots, k \in TopKs : \E q \in Queries(i) : Search(i, q, k)

SpecShared == Init /\ [][NextShared]_vars

\* RAGPipeline.search over a store double: get_collection_info reports count
\* documents and search returns the list results, whatever it holds.
SearchOverStub(i, count, results) ==
    LET s    == stores[i]
        call == Call("search", i)
    IN  /\ s.live
        /\ last' = IF MissingUserId(s.user_id)
                   THEN [call EXCEPT !.raised = "ValueError", !.ok = FALSE]
                   ELSE pipeline_search_over(s.user_id, count,
                            [NoneFound EXCEPT !.results = results], call)
        /\ UNCHANGED <<db_type, collections, index_file, metadata_file, stores,
                     documents, chunker, processor>>

StubResult ==
    [chunk_id : {ChunkId(f, 0) : f \in UploadNames}, source : UploadNames,
     user_id : UserIds, distance : Distances]

StubResults ==
    {<<>>} \cup {<<r>> : r \in StubResult}
           \cup {<<r1, r2>> : r1 \in StubResult, r2 \in StubResult}

NextStub ==
    \/ \E i \in Slots, u \in UserIds : NewPipeline(i, u)
    \/ \E i \in Slots, count \in 0..1, results \in StubResults :
          SearchOverStub(i, count, results)

SpecStub == Init /\ [][NextStub]_vars

\* QASystem(pipeline).answer over a store double: get_collection_info
\* reports count documents and search returns the list results.
AnswerOverStub(i, count, results, llm) ==
    LET s    == stores[i]
        call == [Call("answer", i) EXCEPT !.top_k = TOP_K_RESULTS]
    IN  /\ s.live
        /\ last' = qa_answer(
                      IF MissingUserId(s.user_id)
                      THEN [call EXCEPT !.raised = "ValueError", !.ok = FALSE]
                      ELSE pipeline_search_over(s.user_id, count,
                               [NoneFound EXCEPT !.results = results], call),
                      llm)
        /\ UNCHANGED <<db_type, collections, index_file, metadata_file, stores,
                       documents, chunker, processor>>

\* The distances a store may report, in the unit of the scores: a squared L2
\* distance has no upper bound, and chroma's result may hold None.
MaxDistance == 11

ScoreDistances == {0, 1, MaxDistance - 1, MaxDistance}

\* A result of tenant t at distance d, or without distance.
ScoredResult(t, d, without) ==
    IF without
    THEN [chunk_id |-> ChunkId("a.pdf", 0), source |-> "a.pdf",
          user_id |-> Some(t)]
    ELSE [chunk_id |-> ChunkId("a.pdf", 0), source |-> "a.pdf",
          user_id |-> Some(t), distance |-> d]

NextAnswer ==
    \/ \E i \in Slots, t \in Tenants : NewPipeline(i, Some(t))
    \/ \E i \in Slots, count \in 0..1, llm \in {"ok", "error", "off"},
          t1 \in Tenants, d1 \in ScoreDistances, without1 \in BOOLEAN :
          \/ AnswerOverStub(i, count, <<ScoredResult(t1, d1, without1)>>, llm)
          \/ \E t2 \in Tenants, d2 \in ScoreDistances, without2 \in BOOLEAN :
                AnswerOverStub(i, count,
                               <<ScoredResult(t1, d1, without1),
                                 ScoredResult(t2, d2, without2)>>, llm)

SpecAnswer == Init /\ [][NextAnswer]_vars

\* Two pipelines of one tenant alive at a time, as two requests (or two
\* processes) hold them: each is constructed, then ingests its document.
WriterSlots == {1, 2}

InitWriters ==
    /\ InitFiles
    /\ stores = [i \in WriterSlots |-> NoStore]
    /\ chunker = NoChunker
    /\ processor = NoProcessor

NextWriters ==
    \/ \E i \in WriterSlots : NewPipeline(i, Some(1))
    \/ \E i \in WriterSlots, f \in SharedNames, n \in 1..MaxChunks :
          IngestSingleDocument(i, f, n, "")

SpecWriters == InitWriters /\ [][NextWriters]_vars

-----------------------------------------------------------------------------
(* The application's request handlers (app.py) *)

\* Each handler builds its own RAGPipeline(user_id=current_user.id) and drops
\* it when the request ends: no store object outlives a request.

MaxDocuments == 2
MaxUploaded == 2

DocumentRowCounted(user_id, original_filename, raised, n) ==
    [user_id |-> user_id, original_filename |-> original_filename,
     is_processed |-> raised = "", chunk_count |-> n]

\* The Document row as upload_document leaves it: created with the column
\* defaults is_processed = False and chunk_count = 0, and given
\* is_processed = True and chunk_count = chunks_created only when
\* ingest_single_document returned.
DocumentRow(user_id, original_filename, raised, n) ==
    [user_id |-> user_id, original_filename |-> original_filename,
     is_processed |-> raised = "",
     chunk_count |-> IF raised = "" THEN n ELSE 0]

\* get_collection_info()["document_count"] as the pipeline of a request by
\* user_id reads it: a collection the constructor has just created is empty.
request_count(user_id) ==
    IF db_type = "chroma" /\ collection_name(user_id) \notin DOMAIN collections
    THEN 0
    ELSE document_count(NewStore(user_id))

\* RAGPipeline.search by the pipeline of a request.
request_search(user_id, q, top_k, call) ==
    IF request_count(user_id) = 0 /\ ~MissingUserId(user_id)
    THEN [call EXCEPT !.info_calls = 1]
    ELSE pipeline_search(NewStore(user_id), q, top_k, call)

RequestQueries(user_id) == [1..request_count(user_id) -> Distances]

\* POST /api/documents/upload by tenant t of a PDF the chunker cuts into n
\* chunks; fails is the step of ingest_single_document that raises ("" for
\* none): the PDF extraction, the embedding provider (both come before
\* add_documents), or the store's add, raising before it has written
\* anything. A failure ends the request in HTTP 500.
UploadDocument(t, original_filename, n, fails) ==
    LET user_id == Some(t)
        s       == NewStore(user_id)
        chunks  == chunk_document(original_filename, user_id, n)
        call    == [NoCall EXCEPT !.op = "upload_document", !.user_id = user_id,
                                  !.filename = original_filename]
    IN  /\ Len(documents) < MaxDocuments
        /\ fails = "" => StoredTotal(s) + n <= MaxUploaded
        /\ documents' = Append(documents,
                               DocumentRow(user_id, original_filename, fails, n))
        /\ IF fails # ""
           THEN /\ collections' = IF db_type = "chroma"
                                  THEN InitChromaCollections(user_id)
                                  ELSE collections
                /\ last' = [call EXCEPT !.raised = "HTTP 500", !.ok = FALSE,
                                         !.detail = fails]
                /\ UNCHANGED <<index_file, metadata_file>>
           ELSE /\ last' = [call EXCEPT !.chunks = n]
                /\ IF db_type = "chroma"
                   THEN /\ collections' =
                              [InitChromaCollections(user_id) EXCEPT
                                  ![s.collection_name] = chroma_add(@, chunks)]
                        /\ UNCHANGED <<index_file, metadata_file>>
                   ELSE /\ index_file' = faiss_add(s, chunks).faiss_index
                        /\ metadata_file' = Some(faiss_add(s, chunks).metadata_store)
                        /\ UNCHANGED collections
        /\ UNCHANGED <<db_type, stores, chunker, processor>>

\* The rows of documents without the row at position d.
WithoutRow(d) ==
    [j \in 1..(Len(documents) - 1) |->
        IF j < d THEN documents[j] ELSE documents[j + 1]]

\* DELETE /api/documents/{doc_id} by tenant t, doc_id naming the row at
\* position d: the uploaded file and the row are removed. The handler makes
\* no call to the vector store.
DeleteDocument(t, d) ==
    LET call == [NoCall EXCEPT !.op = "delete_document", !.user_id = Some(t)]
    IN  /\ IF d \in DOMAIN documents /\ documents[d].user_id = Some(t)
           THEN /\ documents' = WithoutRow(d)
                /\ last' = [call EXCEPT
                              !.filename = documents[d].original_filename]
           ELSE /\ last' = [call EXCEPT !.raised = "HTTP 404", !.ok = FALSE]
                /\ UNCHANGED documents
        /\ UNCHANGED <<db_type, collections, index_file, metadata_file, stores,
                       chunker, processor>>

\* POST /api/chat/ask by tenant t: QASystem(RAGPipeline(user_id)).answer.
AskQuestion(t, q, llm) ==
    LET user_id == Some(t)
    IN  /\ last' = qa_answer(request_search(user_id, q, TOP_K_RESULTS,
                                [NoCall EXCEPT !.op = "ask_question",
                                               !.user_id = user_id,
                                               !.top_k = TOP_K_RESULTS]), llm)
        /\ collections' = IF db_type = "chroma"
                          THEN InitChromaCollections(user_id) ELSE collections
        /\ UNCHANGED <<db_type, index_file, metadata_file, stores, documents, chunker, processor>>

\* GET /api/stats by tenant t: RAGPipeline(user_id).get_collection_info().
GetStats(t) ==
    LET user_id == Some(t)
    IN  /\ last' = [NoCall EXCEPT !.op = "get_stats", !.user_id = user_id,
                                  !.info_calls = 1,
                                  !.count = request_count(user_id)]
        /\ collections' = IF db_type = "chroma"
                          THEN InitChromaCollections(user_id) ELSE collections
        /\ UNCHANGED <<db_type, index_file, metadata_file, stores, documents, chunker, processor>>

NextApp ==
    \/ \E t \in Tenants, f \in UploadNames, n \in 1..MaxChunks,
          fails \in {"", "extract", "embed", "add"} :
             UploadDocument(t, f, n, fails)
    \/ \E t \in Tenants, d \in 1..MaxDocuments : DeleteDocument(t, d)
    \/ \E t \in Tenants, llm \in {"ok", "off"} :
          \E q \in RequestQueries(Some(t)) : AskQuestion(t, q, llm)
    \/ \E t \in Tenants : GetStats(t)

SpecApp == Init /\ [][NextApp]_vars

\* Uploads under two original filenames, and deletions.
NextUploads ==
    \/ \E t \in Tenants, f \in SharedNames, n \in 1..MaxChunks,
          fails \in {"", "extract", "embed", "add"} :
             UploadDocument(t, f, n, fails)
    \/ \E t \in Tenants, d \in 1..MaxDocuments : DeleteDocument(t, d)

SpecUploads == Init /\ [][NextUploads]_vars

-----------------------------------------------------------------------------
(* TextChunker (text_chunker.py) *)

\* A text is the sequence of its characters: text[i] of the source is the
\* element i + 1 here, and Slice(text, a, b) is text[a:b].

MaxTextLen == 5
MaxChunkSize == 3
MaxSeparators == 2
DocumentLength == 2500

CHUNK_SIZE == 1000
CHUNK_OVERLAP == 200
LOOK_BACK == 200

Alphabet == {"a", " ", ".", "\n"}
Whitespace == {" ", "\n"}

separators_without_cut ==
    << <<"\n", "\n">>, <<"\n">>, <<".", " ">>, <<"!", " ">>, <<"?", " ">>,
       <<" ">> >>

\* separators = ["\n\n", "\n", ". ", "! ", "? ", " ", ""]
separators ==
    << <<"\n", "\n">>, <<"\n">>, <<".", " ">>, <<"!", " ">>, <<"?", " ">>,
       <<" ">>, <<>> >>

Max(a, b) == IF a >= b THEN a ELSE b

Slice(text, a, b) == SubSeq(text, a + 1, Min(b, Len(text)))

RECURSIVE FirstKept(_, _)
FirstKept(text, i) ==
    IF i > Len(text) \/ text[i] \notin Whitespace THEN i
    ELSE FirstKept(text, i + 1)

RECURSIVE LastKept(_, _)
LastKept(text, i) ==
    IF i < 1 \/ text[i] \notin Whitespace THEN i ELSE LastKept(text, i - 1)

\* str.strip()
strip(text) == SubSeq(text, FirstKept(text, 1), LastKept(text, Len(text)))

\* for i in range(end, low, -1): the first i at which sep stands, which is
\* the greatest such i of low + 1 .. end, -1 for none.
find_break(text, sep, end, low) ==
    LET stands == {i \in (low + 1)..end : Slice(text, i, i + Len(sep)) = sep}
    IN  IF stands = {} THEN -1
        ELSE CHOOSE i \in stands : \A j \in stands : j <= i

\* for sep in separators, from separators[k] on: best_break is set at the
\* first place each separator stands, and the search ends with the first
\* separator that leaves best_break < end.
RECURSIVE best_break_from(_, _, _, _, _)
best_break_from(text, start, end, k, best_break) ==
    IF k > Len(separators) THEN best_break
    ELSE LET sep   == separators[k]
             i     == find_break(text, sep, end, Max(start, end - LOOK_BACK))
             found == IF i = -1 THEN best_break ELSE i + Len(sep)
         IN  IF found < end THEN found
             ELSE best_break_from(text, start, end, k + 1, found)

next_start_twice(start, best_break, chunk_overlap) ==
    Max(start + 1, best_break - 2 * chunk_overlap)

\* start = max(start + 1, best_break - self.chunk_overlap)
next_start(start, best_break, chunk_overlap) ==
    Max(start + 1, best_break - chunk_overlap)

\* A chunk with the slice text[start:stop] it was cut from.
Piece(start, stop, content) ==
    [start |-> start, stop |-> stop, content |-> content]

\* One iteration of the while loop: the cursor start, the slice
\* text[start:stop] it cut, the chunk made of it, and whether the chunk was
\* appended (a chunk that strip leaves empty is not).
Step(start, stop, content, emitted) ==
    [start |-> start, stop |-> stop, content |-> content, emitted |-> emitted]

last_chunk_stripped(text, start) == strip(Slice(text, start, Len(text)))

\* chunks.append(text[start:]) of the last iteration
last_chunk(text, start) == Slice(text, start, Len(text))

\* The while loop of _split_text, iteration by iteration.
RECURSIVE split_steps(_, _, _, _, _)
split_steps(text, chunk_size, chunk_overlap, start, steps) ==
    IF start >= Len(text) THEN steps
    ELSE LET end == start + chunk_size
         IN  IF end >= Len(text)
             THEN Append(steps,
                         Step(start, Len(text), last_chunk(text, start), TRUE))
             ELSE LET best_break == best_break_from(text, start, end, 1, end)
                      chunk == strip(Slice(text, start, best_break))
                  IN  split_steps(text, chunk_size, chunk_overlap,
                                  next_start(start, best_break, chunk_overlap),
                                  Append(steps, Step(start, best_break, chunk,
                                                     chunk # <<>>)))

\* The iterations of the loop; none when the text is no longer than
\* chunk_size and _split_text returns it whole.
loop_steps(text, chunk_size, chunk_overlap) ==
    IF Len(text) <= chunk_size THEN <<>>
    ELSE split_steps(text, chunk_size, chunk_overlap, 0, <<>>)

\* TextChunker._split_text(text), each chunk with its slice.
split_pieces(text, chunk_size, chunk_overlap) ==
    IF Len(text) <= chunk_size THEN <<Piece(0, Len(text), text)>>
    ELSE LET emitted == SelectSeq(loop_steps(text, chunk_size, chunk_overlap),
                                  LAMBDA step : step.emitted)
         IN  [j \in DOMAIN emitted |->
                Piece(emitted[j].start, emitted[j].stop, emitted[j].content)]

\* TextChunker._split_text(text)
split_text(text, chunk_size, chunk_overlap) ==
    LET pieces == split_pieces(text, chunk_size, chunk_overlap)
    IN  [j \in 1..Len(pieces) |-> pieces[j].content]

\* TextChunker.chunk_document(document), of a document named filename.
TextChunker_chunk_document(filename, content, chunk_size, chunk_overlap) ==
    LET chunks == split_text(content, chunk_size, chunk_overlap)
    IN  [j \in 1..Len(chunks) |->
           [chunk_id     |-> ChunkId(filename, j - 1),
            content      |-> chunks[j],
            source       |-> filename,
            chunk_index  |-> j - 1,
            total_chunks |-> Len(chunks),
            chunk_size   |-> Len(chunks[j])]]

\* chunker.chunk_document(document) by the chunker at hand.
ChunkDocument ==
    /\ ~chunker.called
    /\ chunker' =
          [chunker EXCEPT
             !.called = TRUE,
             !.steps = loop_steps(chunker.content, chunker.chunk_size,
                                  chunker.chunk_overlap),
             !.pieces = split_pieces(chunker.content, chunker.chunk_size,
                                     chunker.chunk_overlap),
             !.chunks = TextChunker_chunk_document(
                            chunker.filename, chunker.content,
                            chunker.chunk_size, chunker.chunk_overlap)]
    /\ UNCHANGED <<db_type, collections, index_file, metadata_file, stores,
                   documents, processor, last>>

\* TextChunker(chunk_size, chunk_overlap) and a document of the given content.
Chunker(chunk_size, chunk_overlap, content) ==
    [NoChunker EXCEPT !.chunk_size = chunk_size, !.chunk_overlap = chunk_overlap,
                      !.filename = "a.pdf", !.content = content]

Texts == UNION {[1..n -> Alphabet] : n \in 0..MaxTextLen}

\* Every short text under every chunk size and every smaller overlap.
InitSplit ==
    /\ InitStore
    /\ processor = NoProcessor
    /\ \E chunk_size \in 1..MaxChunkSize, chunk_overlap \in 0..MaxChunkSize,
          content \in Texts :
          /\ chunk_overlap < chunk_size
          /\ chunker = Chunker(chunk_size, chunk_overlap, content)

SpecSplit == InitSplit /\ [][ChunkDocument]_vars

MaxAnyLen == 4

AnyTexts == UNION {[1..n -> Alphabet] : n \in 0..MaxAnyLen}

\* Every short text under every chunk size and every overlap, the overlaps
\* of chunk_size and more included.
InitSplitAny ==
    /\ InitStore
    /\ processor = NoProcessor
    /\ \E chunk_size \in 1..MaxChunkSize, chunk_overlap \in 0..MaxChunkSize,
          content \in AnyTexts :
          chunker = Chunker(chunk_size, chunk_overlap, content)

SpecSplitAny == InitSplitAny /\ [][ChunkDocument]_vars

\* The places of a 2,500-character document where a space may stand, around
\* the ends of the windows the configured chunker looks back from.
SeparatorPlaces ==
    {801, 850, 900, 998, 999, 1000, 1452, 1500, 1700, 1798, 2300}

PolicyText(places) ==
    [i \in 1..DocumentLength |-> IF (i - 1) \in places THEN " " ELSE "a"]

\* TextChunker() as configured, and a document of DocumentLength characters
\* with at most MaxSeparators spaces.
InitPolicy ==
    /\ InitStore
    /\ processor = NoProcessor
    /\ \E places \in SUBSET SeparatorPlaces :
          /\ Cardinality(places) <= MaxSeparators
          /\ chunker = Chunker(CHUNK_SIZE, CHUNK_OVERLAP, PolicyText(places))

SpecPolicy == InitPolicy /\ [][ChunkDocument]_vars

-----------------------------------------------------------------------------
(* DocumentProcessor.clean_text (document_processor.py) *)

\* The characters of a raw text: a word character, the two whitespace
\* characters, and a character that is neither word, whitespace nor kept
\* punctuation.
RawAlphabet == {"a", " ", "\n", "#"}

\* [^\w\s\.\,\;\:\!\?\-\(\)]
Special == {"#"}

\* re.sub of a pattern class+ by repl, from position i on: every maximal run
\* of characters of the class becomes one repl.
RECURSIVE sub_runs(_, _, _, _)
sub_runs(text, class, repl, i) ==
    IF i > Len(text) THEN <<>>
    ELSE IF text[i] \notin class THEN <<text[i]>> \o sub_runs(text, class, repl, i + 1)
    ELSE IF i > 1 /\ text[i - 1] \in class THEN sub_runs(text, class, repl, i + 1)
    ELSE <<repl>> \o sub_runs(text, class, repl, i + 1)

\* re.sub(r'[^\w\s\.\,\;\:\!\?\-\(\)]', '', text)
remove_special(text) == SelectSeq(text, LAMBDA c : c \notin Special)

\* clean_text(text): the whitespace runs become one space each, then the
\* special characters go, then the newline runs become one newline each,
\* then the text is stripped.
clean_text(text) ==
    strip(sub_runs(remove_special(sub_runs(text, Whitespace, " ", 1)),
                   {"\n"}, "\n", 1))

\* processor.clean_text(text), of the raw text first and of its own result
\* after that.
CleanText ==
    /\ processor.calls < 2
    /\ processor' = [text |-> clean_text(processor.text),
                     calls |-> processor.calls + 1]
    /\ UNCHANGED <<db_type, collections, index_file, metadata_file, stores,
                   documents, chunker, last>>

RawTexts == UNION {[1..n -> RawAlphabet] : n \in 0..MaxTextLen}

InitClean ==
    /\ InitStore
    /\ chunker = NoChunker
    /\ \E text \in RawTexts : processor = [text |-> text, calls |-> 0]

SpecClean == InitClean /\ [][CleanText]_vars

-----------------------------------------------------------------------------
(* Tenant isolation of RAGPipeline.search *)

\* C1: whatever the store holds, under either backend, a search by the
\* pipeline of tenant A returns only results whose metadata user_id is A,
\* never one of another tenant; when it raises it returns nothing.
C1_TenantIsolation ==
    last.op = "search" =>
        /\ \A j \in DOMAIN last.results : last.results[j].user_id = last.user_id
        /\ last.raised # "" => last.results = <<>>

\* A search that returned a result at distance 1 after it passed over
\* another tenant's vector at distance 0.
C1_Witness ==
    /\ last.op = "search"
    /\ last.raised = ""
    /\ last.results # <<>>
    /\ last.results[1].distance = 1
    /\ 0 \in last.passed_over

-----------------------------------------------------------------------------
(* Validation of the chunks given to VectorStore.add_documents *)

\* C2: add_documents on the store of tenant T raises whenever a chunk of the
\* batch has a metadata user_id that is missing or is not T.
C2_AddRejectsForeignChunks ==
    (/\ last.op = "add_documents"
     /\ Truthy(last.user_id)
     /\ \E u \in last.given : u # last.user_id)
    => last.raised # ""

\* The chunks stored in the namespace of tenant t: its chroma collection.
Namespace(t) ==
    IF db_type = "chroma" /\ collection_name(Some(t)) \in DOMAIN collections
    THEN collections[collection_name(Some(t))]
    ELSE <<>>

\* Every chunk the backend holds, on disk and in the live objects.
AllStored ==
    IF db_type = "chroma"
    THEN UNION {{collections[c][j] : j \in DOMAIN collections[c]} :
                   c \in DOMAIN collections}
    ELSE UNION ({{stores[i].metadata_store[j] : j \in DOMAIN stores[i].metadata_store} :
                    i \in Slots}
                \cup {IF metadata_file = None THEN {}
                      ELSE {metadata_file[1][j] : j \in DOMAIN metadata_file[1]}})

\* C3: every chunk in the namespace of tenant T has the metadata user_id T:
\* none is there without a user_id or with another tenant's.
C3_NamespaceInvariant ==
    \A t \in Tenants : \A j \in DOMAIN Namespace(t) :
        Namespace(t)[j].user_id = Some(t)


-----------------------------------------------------------------------------
(* Re-ingestion and the empty store *)

\* The store of the tenant in slot i already holds the n chunks of the
\* document filename for that tenant: exactly the chunk ids
\* filename_chunk_0 .. filename_chunk_(n-1).
AlreadyIngested(i, filename, n) ==
    /\ stores[i].live
    /\ Truthy(stores[i].user_id)
    /\ ~ChromaGone(stores[i])
    /\ LET meta == StoredMetadata(stores[i])
           own  == {j \in DOMAIN meta : /\ meta[j].source = filename
                                        /\ meta[j].user_id = stores[i].user_id}
       IN  {meta[j].chunk_id : j \in own} = {ChunkId(filename, k - 1) : k \in 1..n}

\* get_collection_info().document_count as the pipeline in slot i reads it.
DocumentCount(i) == document_count(stores[i])

\* C4: ingesting a document whose chunks the tenant's store already holds
\* (same filename, same chunk ids) leaves get_collection_info's
\* document_count as it was, under chroma and under faiss.
C4_IdempotentIngestion ==
    [][\A i \in Slots :
         (/\ last'.op = "ingest_single_document"
          /\ last'.raised = ""
          /\ AlreadyIngested(i, last'.filename, last'.chunks))
         => DocumentCount(i)' = DocumentCount(i)]_vars

\* The tenant of the pipeline in slot i has no chunk anywhere: every stored
\* chunk carries the user_id of another tenant, and under chroma the tenant's
\* collection is empty.
HasNoChunks(i) ==
    /\ stores[i].live
    /\ Truthy(stores[i].user_id)
    /\ \A e \in AllStored : Truthy(e.user_id) /\ e.user_id # stores[i].user_id
    /\ db_type = "chroma" =>
          /\ ~stores[i].stale
          /\ collections[stores[i].collection_name] = <<>>

\* C5: a search for a tenant that has no stored chunks returns the empty
\* list without calling the embedding provider, whatever other tenants have
\* stored, under chroma and under faiss.
C5_EmptyShortCircuit ==
    \A i \in Slots :
        (last.op = "search" /\ HasNoChunks(i))
        => (last.results = <<>> /\ last.embed_calls = 0)

-----------------------------------------------------------------------------
(* Reads and the set of collections *)

-----------------------------------------------------------------------------
(* The checks of RAGPipeline.search *)

\* C7: a search on a pipeline without user_id raises before the embedding
\* provider is called and before the store is read or searched, and returns
\* no results.
C7_SearchWithoutUserRaises ==
    (last.op = "search" /\ last.user_id = None)
    => /\ last.raised = "ValueError"
       /\ last.embed_calls = 0
       /\ last.info_calls = 0
       /\ last.search_calls = 0
       /\ last.results = <<>>

\* Such a search was made while the store it would have read held chunks.
C7_Witness ==
    /\ last.op = "search"
    /\ last.user_id = None
    /\ \E i \in Slots : /\ stores[i].live
                        /\ stores[i].user_id = None
                        /\ ~ChromaGone(stores[i])
                        /\ document_count(stores[i]) > 0

\* C8: when the list the store's search hands to RAGPipeline.search holds a
\* result whose metadata user_id is not the pipeline's, the search raises and
\* returns no result at all.
C8_ForeignResultAborts ==
    (/\ last.op = "search"
     /\ \E j \in DOMAIN last.found : last.found[j].user_id # last.user_id)
    => (last.raised = "SECURITY ERROR" /\ last.results = <<>>)

\* The store handed back the pipeline's own result followed by a foreign one.
C8_Witness ==
    /\ last.op = "search"
    /\ Len(last.found) = 2
    /\ last.found[1].user_id = last.user_id
    /\ last.found[2].user_id # last.user_id
    /\ last.raised = "SECURITY ERROR"

-----------------------------------------------------------------------------
(* Candidates without a user_id *)

\* C9: VectorStore.search returns no result whose metadata has no user_id,
\* under either backend, with or without a user_id of the store's own.
C9_NoResultWithoutUser ==
    last.op = "store_search" =>
        \A j \in DOMAIN last.results : last.results[j].user_id # None

\* A store without user_id skipped such a candidate and returned others.
C9_Witness ==
    /\ last.op = "store_search"
    /\ last.user_id = None
    /\ last.warned
    /\ last.results # <<>>

\* C10 as the specification has it: a query that met a candidate without
\* user_id ends in an error.
C10_MissingUserAborts ==
    (last.op = "answer" /\ last.warned) => last.raised # ""

\* C10: a query that met a candidate without user_id drops it with the
\* warning and goes on: it raises nothing, and it ends in the "could not
\* find" answer when nothing else matched and in a normal answer, built from
\* the tenant's own chunks only, when something did.
C10_MissingUserDropped ==
    (last.op = "answer" /\ last.warned)
    => /\ last.raised = ""
       /\ \A j \in DOMAIN last.results :
             last.results[j].user_id = last.user_id
       /\ last.results = <<>> => last.answer = "not_found"
       /\ last.results # <<>> => last.answer \in {"llm", "extractive"}

\* Such a query ended in the "could not find" answer.
C10_Witness ==
    /\ last.op = "answer"
    /\ last.warned
    /\ last.answer = "not_found"

-----------------------------------------------------------------------------
(* The size and the order of the results *)

\* The positions of the chunks the store of slot i holds for its own user.
OwnChunks(i) ==
    {j \in DOMAIN StoredMetadata(stores[i]) :
        StoredMetadata(stores[i])[j].user_id = stores[i].user_id}

\* Every chunk the store of slot i sees carries a tenant's user_id, and no
\* chunk is there twice.
CleanStore(i) ==
    LET meta == StoredMetadata(stores[i])
    IN  /\ \A j \in DOMAIN meta : Truthy(meta[j].user_id)
        /\ \A j1, j2 \in DOMAIN meta :
              (/\ meta[j1].chunk_id = meta[j2].chunk_id
               /\ meta[j1].user_id = meta[j2].user_id) => j1 = j2

\* C11: a search for tenant A, who has n >= 1 stored chunks, with top_k = k
\* returns exactly min(k, n) results, whatever other tenants have stored and
\* however near to the query it is.
C11_NoStarvation ==
    \A i \in Slots :
        (/\ last.op = "search"
         /\ last.raised = ""
         /\ stores[i].live
         /\ Truthy(stores[i].user_id)
         /\ ~ChromaGone(stores[i])
         /\ CleanStore(i)
         /\ Cardinality(OwnChunks(i)) >= 1)
        => Len(last.results) = Min(last.top_k, Cardinality(OwnChunks(i)))

\* C12: VectorStore.search(q, top_k) returns at most top_k results, nearest
\* first (the distances never decrease along the list), each with its
\* distance.
C12_AtMostTopKNearestFirst ==
    last.op = "store_search" =>
        /\ Len(last.results) <= last.top_k
        /\ \A j \in DOMAIN last.results : last.results[j].distance \in Distances
        /\ \A j \in 1..(Len(last.results) - 1) :
              last.results[j].distance <= last.results[j + 1].distance

\* A search with top_k = 2 over three stored chunks returned two results, at
\* distances 0 and 1.
C12_Witness ==
    /\ last.op = "store_search"
    /\ last.top_k = 2
    /\ Len(last.results) = 2
    /\ last.results[1].distance = 0
    /\ last.results[2].distance = 1
    /\ \E i \in Slots : /\ stores[i].live
                        /\ ~ChromaGone(stores[i])
                        /\ document_count(stores[i]) = 3

-----------------------------------------------------------------------------
(* delete_collection *)

\* C13: delete_collection on a tenant's store reports success when it is the
\* first call on the newly constructed store, and reports success again when
\* it is called a second time in a row on the same store.
C13_DeleteIdempotent ==
    [][(/\ last'.op = "delete_collection"
        /\ Truthy(last'.user_id)
        /\ \/ last.op = "new"
           \/ last.op = "delete_collection" /\ last.ok)
       => last'.ok]_vars

\* C14: once delete_collection on a tenant's store has returned True, the
\* next call on that store finds nothing left: get_collection_info reports
\* document_count 0, search returns no results, and an ingestion stores the
\* new chunks only - the deleted ones do not come back.
C14_DeleteLeavesNothing ==
    [][(/\ last.op = "delete_collection"
        /\ last.ok
        /\ Truthy(last.user_id))
       => /\ last'.op = "get_collection_info" => last'.count = 0
          /\ last'.op = "search" => last'.results = <<>>
          /\ (last'.op = "ingest_single_document" /\ last'.raised = "")
             => \/ metadata_file' = None
                \/ Len(metadata_file'[1]) = last'.chunks]_vars

\* The chunks a store constructed now for tenant t could return from a
\* search: those it would hold that carry t's user_id.
VisibleTo(t) ==
    SelectSeq(IF db_type = "chroma" THEN Namespace(t)
              ELSE IF index_file = None THEN <<>> ELSE metadata_file[1],
              LAMBDA e : e.user_id = Some(t))

\* C15: delete_collection on tenant A's store leaves every other tenant B as
\* it was: the chunks of B that B's searches run over are the same before and
\* after.
C15_DeleteLeavesOthers ==
    [][(last'.op = "delete_collection" /\ Truthy(last'.user_id))
       => \A t \in Tenants :
             Some(t) # last'.user_id => VisibleTo(t)' = VisibleTo(t)]_vars

-----------------------------------------------------------------------------
(* Deleting a document (app.py, delete_document) *)

\* C16: once a tenant has deleted a document, no question of theirs is
\* answered from a chunk whose source is that document: every chunk that
\* ask_question retrieves for a tenant comes from a document the tenant still
\* has a row for.
C16_DeletedDocumentUnreachable ==
    last.op = "ask_question" =>
        \A j \in DOMAIN last.results :
            \E d \in DOMAIN documents :
                /\ documents[d].user_id = last.user_id
                /\ documents[d].original_filename = last.results[j].source

-----------------------------------------------------------------------------
(* Uploading a document (app.py, upload_document) *)

\* C17: when a step of the ingestion of an upload fails (the extraction,
\* the embedding or the store's add), the request ends in an error and the Document row of the
\* upload has is_processed = False and chunk_count = 0; when the embedding
\* fails, the vector store holds what it held before the request: no chunk
\* of the document is stored.
C17_FailedUploadStoresNothing ==
    [][(last'.op = "upload_document" /\ last'.detail # "") =>
          /\ last'.raised = "HTTP 500"
          /\ Len(documents') = Len(documents) + 1
          /\ ~documents'[Len(documents')].is_processed
          /\ documents'[Len(documents')].chunk_count = 0
          /\ last'.detail = "embed" =>
                /\ index_file' = index_file
                /\ metadata_file' = metadata_file
                /\ \A c \in DOMAIN collections' :
                      collections'[c] =
                         IF c \in DOMAIN collections THEN collections[c] ELSE <<>>]_vars

\* An upload whose embedding failed, by a tenant whose earlier upload went
\* through.
C17_Witness ==
    /\ last.op = "upload_document"
    /\ last.detail = "embed"
    /\ last.raised = "HTTP 500"
    /\ Len(documents) = 2
    /\ documents[1].user_id = last.user_id
    /\ documents[1].is_processed
    /\ documents[1].chunk_count = 2
    /\ documents[2].user_id = last.user_id
    /\ ~documents[2].is_processed
    /\ documents[2].chunk_count = 0

-----------------------------------------------------------------------------
(* The chunks of a text (text_chunker.py, _split_text) *)

\* C18: for every text, every chunk_size >= 1 and every smaller overlap, the
\* slices of the text that the emitted chunks were cut from come in
\* increasing start order, each starts at or before the end of the one
\* before it, the first starts at 0 and the last ends at the end of the text,
\* so that every character other than whitespace lies in a chunk's slice.
C18_ChunkCoverage ==
    chunker.called =>
        LET p    == chunker.pieces
            text == chunker.content
        IN  /\ p # <<>>
            /\ p[1].start = 0
            /\ p[Len(p)].stop = Len(text)
            /\ \A j \in 1..(Len(p) - 1) :
                  /\ p[j].start < p[j + 1].start
                  /\ p[j + 1].start <= p[j].stop
            /\ \A i \in 1..Len(text) :
                  text[i] \notin Whitespace =>
                     \E j \in DOMAIN p : p[j].start < i /\ i <= p[j].stop

\* C19: chunking an empty text yields no chunk: _split_text("") returns the
\* empty list and chunk_document of a document with empty content returns no
\* chunk record.
C19_EmptyTextNoChunks ==
    (chunker.called /\ chunker.content = <<>>) =>
        /\ chunker.pieces = <<>>
        /\ chunker.chunks = <<>>

-----------------------------------------------------------------------------
(* The chunks of a 2,500-character document (config.py, text_chunker.py) *)

\* The chunk records are numbered 0 .. n - 1 in order and each carries
\* total_chunks = n.
NumberedChunks(n) ==
    /\ Len(chunker.chunks) = n
    /\ \A j \in 1..n :
          /\ chunker.chunks[j].chunk_index = j - 1
          /\ chunker.chunks[j].total_chunks = n

PolicyDocumentChunked ==
    /\ chunker.called
    /\ chunker.chunk_size = CHUNK_SIZE
    /\ chunker.chunk_overlap = CHUNK_OVERLAP
    /\ Len(chunker.content) = DocumentLength

-----------------------------------------------------------------------------
(* The answer of QASystem.answer (qa_system.py) *)

\* C21: when the retrieval returns no result, a tenant without documents
\* included, answer returns the fixed "could not find" answer with no
\* sources and confidence 0.0, and asks for no completion.
C21_NoResultsFixedAnswer ==
    (last.op = "answer" /\ last.raised = "" /\ last.results = <<>>) =>
        /\ last.answer = "not_found"
        /\ last.sources = <<>>
        /\ last.confidence = 0
        /\ last.llm_calls = 0

\* The answer to a tenant whose store holds nothing: the search was cut
\* short after get_collection_info.
C21_Witness ==
    /\ last.op = "answer"
    /\ Truthy(last.user_id)
    /\ last.raised = ""
    /\ last.info_calls = 1
    /\ last.search_calls = 0
    /\ last.answer = "not_found"
    /\ last.sources = <<>>

\* The call of last before step 3 of answer: searched, nothing generated.
Searched ==
    [last EXCEPT !.raised = "", !.ok = TRUE, !.answer = "", !.llm_calls = 0,
                 !.sources = <<>>, !.confidence = 0]

\* C22: when the retrieval found something and no completion came back
\* (the completion call raised, no client is configured or use_llm is
\* False), answer raises nothing and returns the extractive fallback, with
\* the sources and the confidence it reports when the completion succeeds.
C22_FallbackNeverFails ==
    (last.op = "answer" /\ last.results # <<>> /\ last.answer # "llm") =>
        /\ last.raised = ""
        /\ last.answer = "extractive"
        /\ Len(last.sources) = Len(last.results)
        /\ \A j \in DOMAIN last.sources :
              /\ last.sources[j].chunk_id = last.results[j].chunk_id
              /\ last.sources[j].source = last.results[j].source
        /\ last.sources = qa_answer(Searched, "ok").sources
        /\ last.confidence = qa_answer(Searched, "ok").confidence

\* An answer extracted from two chunks after the completion call raised.
C22_Witness ==
    /\ last.op = "answer"
    /\ last.raised = ""
    /\ last.llm_calls = 1
    /\ last.answer = "extractive"
    /\ Len(last.sources) = 2
    /\ last.confidence = 9

\* C23: every relevance_score of an answer's sources, and so the answer's
\* confidence, lies between 0 and 1 (0 and 10 tenths), whatever distances
\* the store reports: above 10, exactly 0 or None.
C23_ScoresInUnitInterval ==
    last.op = "answer" =>
        /\ \A j \in DOMAIN last.sources :
              /\ 0 <= last.sources[j].relevance_score
              /\ last.sources[j].relevance_score <= 10
        /\ 0 <= last.confidence
        /\ last.confidence <= 10

-----------------------------------------------------------------------------
(* Two writers of one tenant (vector_store.py, _init_faiss, _add_to_faiss) *)

\* The chunk ids persisted for tenant 1: what a store constructed now holds
\* for them.
WriterPersisted == {VisibleTo(1)[j].chunk_id : j \in DOMAIN VisibleTo(1)}

\* C24: two pipelines of one tenant, each constructed before either has
\* written, lose none of each other's data: an ingestion that returns keeps
\* every chunk persisted before it and persists every chunk of its own
\* document, and the index of faiss counts as many vectors as its metadata
\* has entries.
C24_WritersKeepEachOther ==
    [][(last'.op = "ingest_single_document" /\ last'.raised = "") =>
          /\ WriterPersisted \subseteq WriterPersisted'
          /\ ChunkIds(chunk_document(last'.filename, last'.user_id,
                                     last'.chunks)) \subseteq WriterPersisted'
          /\ db_type = "faiss" => index_file'[1] = Len(metadata_file'[1])]_vars

-----------------------------------------------------------------------------
(* The loop of _split_text (text_chunker.py) *)

\* C25: _split_text terminates for every text, every chunk_size >= 1 and
\* every overlap >= 0, those of chunk_size and more included: the cursor
\* grows with every iteration of the loop, so there are no more iterations
\* than characters, and the last iteration emits the rest of the text,
\* text[start:], as the last chunk.
C25_SplitTerminates ==
    chunker.called =>
        LET steps == chunker.steps
            text  == chunker.content
            n     == Len(chunker.steps)
            p     == chunker.pieces
        IN  /\ \A j \in 1..(n - 1) : steps[j].start < steps[j + 1].start
            /\ n <= Len(text)
            /\ p # <<>>
            /\ p[Len(p)].stop = Len(text)
            /\ p[Len(p)].content = Slice(text, p[Len(p)].start, Len(text))
            /\ Len(text) > chunker.chunk_size =>
                  /\ n >= 1
                  /\ steps[n].emitted
                  /\ steps[n].stop = Len(text)
                  /\ p[Len(p)].start = steps[n].start

\* A text cut under an overlap greater than the chunk size: the cursor moved
\* on by one each time, and the rest of the text, a space, came last.
C25_Witness ==
    /\ chunker.called
    /\ chunker.chunk_overlap > chunker.chunk_size
    /\ Len(chunker.steps) = 4
    /\ \A j \in 1..4 : chunker.steps[j].start = j - 1
    /\ chunker.pieces[Len(chunker.pieces)].content = <<" ">>

\* The separator sep stands in the look-back window of an iteration, the
\* up to LOOK_BACK characters before position end, and ends no later than
\* end: a cut right after it keeps the chunk within chunk_size.
InWindow(text, start, end, sep) ==
    \E i \in (Max(start, end - LOOK_BACK) + 1)..end :
        /\ i + Len(sep) <= end
        /\ Slice(text, i, i + Len(sep)) = sep

\* The slice text[start:stop] ends with the separator sep.
EndsAfter(text, stop, sep) ==
    /\ stop >= Len(sep)
    /\ Slice(text, stop - Len(sep), stop) = sep

\* The separators by rank: paragraph break, line break, the end of a
\* sentence, space.
Ranks ==
    << {<<"\n", "\n">>}, {<<"\n">>},
       {<<".", " ">>, <<"!", " ">>, <<"?", " ">>}, {<<" ">>} >>

\* The cut of an iteration from start to stop follows the ranks: it comes
\* right after a separator of the first rank the window holds one of, and
\* at start + chunk_size when the window holds none.
CutByRank(text, start, stop, end) ==
    LET held == {r \in DOMAIN Ranks :
                   \E sep \in Ranks[r] : InWindow(text, start, end, sep)}
    IN  IF held = {} THEN stop = end
        ELSE LET first == CHOOSE r \in held : \A q \in held : r <= q
             IN  \E sep \in Ranks[first] : EndsAfter(text, stop, sep)

\* C26: every chunk but the last ends right after a paragraph break when
\* its look-back window holds one, else right after a line break, else
\* after the end of a sentence, else after a space, and it is cut at
\* start + chunk_size only when the window holds none of them.
C26_SeparatorPriority ==
    chunker.called =>
        \A j \in 1..(Len(chunker.steps) - 1) :
            CutByRank(chunker.content, chunker.steps[j].start,
                      chunker.steps[j].stop,
                      chunker.steps[j].start + chunker.chunk_size)

-----------------------------------------------------------------------------
(* The cleaned text (document_processor.py, clean_text) *)

\* C27: the result of clean_text holds no newline, no two whitespace
\* characters in a row and no whitespace at either end, and clean_text of
\* its own result returns it unchanged.
C27_CleanTextCollapses ==
    [][processor'.calls >= 1 =>
          LET text == processor'.text
          IN  /\ \A i \in DOMAIN text : text[i] # "\n"
              /\ \A i \in 1..(Len(text) - 1) :
                    ~(text[i] \in Whitespace /\ text[i + 1] \in Whitespace)
              /\ text # <<>> =>
                    /\ text[1] \notin Whitespace
                    /\ text[Len(text)] \notin Whitespace
              /\ processor.calls >= 1 => text = processor.text]_vars

-----------------------------------------------------------------------------
(* The size of a chunk (text_chunker.py, _split_text) *)

\* C28: every chunk _split_text emits is at most chunk_size characters
\* long, and the slice it was cut from ends no later than
\* start + chunk_size, also when a separator stands at or across that
\* position.
C28_ChunkSizeBound ==
    chunker.called =>
        /\ \A j \in DOMAIN chunker.pieces :
              /\ Len(chunker.pieces[j].content) <= chunker.chunk_size
              /\ chunker.pieces[j].stop
                    <= chunker.pieces[j].start + chunker.chunk_size
        /\ \A j \in DOMAIN chunker.chunks :
              chunker.chunks[j].chunk_size <= chunker.chunk_size

\* A text with a space right at start + chunk_size and a sentence end
\* across it, cut at chunk_size all the same.
C28_Witness ==
    /\ chunker.called
    /\ chunker.chunk_size = 2
    /\ chunker.content = <<"a", ".", " ", "a">>
    /\ Len(chunker.pieces) >= 2
    /\ chunker.pieces[1].stop = 2

-----------------------------------------------------------------------------
(* The pipeline's validation over the real store (rag_pipeline.py, search) *)

\* C29: a search of a pipeline that has a user_id, answered by its own
\* VectorStore, never raises the SECURITY ERROR, whatever the store holds:
\* the store hands back only results whose metadata user_id equals, as a
\* string, the user_id it shares with the pipeline.
C29_RealStoreNeverTripsValidation ==
    (last.op = "search" /\ Truthy(last.user_id)) =>
        /\ last.raised # "SECURITY ERROR"
        /\ ~ForeignResult(last.found, last.user_id)

\* A search over a store that holds another tenant's vector at distance 1:
\* the store passed it over and the pipeline returned its own result.
C29_Witness ==
    /\ last.op = "search"
    /\ Truthy(last.user_id)
    /\ last.search_calls = 1
    /\ 1 \in last.passed_over
    /\ last.results # <<>>
    /\ last.results[1].distance = 0

-----------------------------------------------------------------------------
(* The chunk ids of uploaded documents (text_chunker.py, chunk_document) *)

\* The chunk ids tenant t's store holds for the documents t has a processed
\* row for.
KeptChunkIds(t) ==
    {VisibleTo(t)[j].chunk_id :
        j \in {k \in DOMAIN VisibleTo(t) :
                 \E d \in DOMAIN documents :
                    /\ documents[d].user_id = Some(t)
                    /\ documents[d].is_processed
                    /\ documents[d].original_filename = VisibleTo(t)[k].source}}

\* C30: within one tenant the chunks of two distinct uploaded documents
\* never share a chunk_id, also when both uploads have the same original
\* filename: no chunk of an upload that went through has the chunk_id of a
\* chunk the store holds for an earlier document of the tenant.
C30_DistinctDocumentsDistinctIds ==
    [][(last'.op = "upload_document" /\ last'.raised = "") =>
          \A t \in Tenants :
              Some(t) = last'.user_id =>
                  ChunkIds(chunk_document(last'.filename, last'.user_id,
                                          last'.chunks))
                      \cap KeptChunkIds(t) = {}]_vars

====
